---- MODULE Spec2Model ----
(***************************************************************************)
(* rclcpp::ClientBase (src/rclcpp/src/rclcpp/client.cpp).                  *)
(*                                                                         *)
(* The model follows one ClientBase object: the shared rcl client handle   *)
(* with its custom deleter, and one thread running                         *)
(* wait_for_service_nanoseconds() step by step, next to the environment    *)
(* it observes (steady clock, rclcpp::ok(), the ROS graph, the node).      *)
(*                                                                         *)
(* trace is the list of the operations the running call has performed on   *)
(* its collaborators, in order; it is what a mock of the graph interface   *)
(* and of rcl would record.                                                *)
(***************************************************************************)
EXTENDS Integers, Sequences, FiniteSets, TLC

\* ------------------------------------------------------------------ bounds
\* timeouts tried by the caller: -MaxNegTimeout .. MaxTimeout (ticks)
MaxTimeout == 2
MaxNegTimeout == 1
\* the environment's Tick stops at this clock value
MaxClock == 3
\* a wait with a budget returns at most this many ticks late
MaxSlack == 1
\* a wait without a budget (negative duration) is notified within this many ticks
MaxBlock == 1
\* wait episodes modelled per call
MaxIter == 3
\* copies of the handle held outside the ClientBase object
MaxHolders == 2

Timeouts == (0 - MaxNegTimeout) .. MaxTimeout

VARIABLES
    \* ---- wait_for_service_nanoseconds(): locals and position
    pc,             \* "idle", "check", "compute", "top", "wait", "clear",
                    \* "recheck", "recompute", "done"
    timeout,        \* the argument
    start,          \* steady_clock::now() at line 93
    time_to_wait,   \* the local of lines 110-131
    event_signaled, \* state of the graph event obtained at line 99
    result,         \* "none", "true", "false", "InvalidNodeError", "RCLError"
    trace,          \* operations performed by the call so far
    \* ---- environment
    now,            \* std::chrono::steady_clock
    ok,             \* rclcpp::ok()
    graph_alive,    \* node_graph_ (weak) can still be locked
    server_available, \* what rcl_service_server_is_available reports
    events_created, \* get_graph_event() calls made by the running call
    \* ---- ClientBase object and client_handle_
    core_alive,     \* the ClientBase object exists
    holders,        \* shared_ptr copies returned by get_client_handle(), alive
    client_state,   \* "none", "allocated", "freed" (the rcl_client_t of line 45)
    fini_calls,     \* rcl_client_fini calls
    fini_ret,       \* "none", "RCL_RET_OK", "RCL_RET_ERROR"
    fini_node,      \* node argument of the fini call: "none", "valid", "dangling"
    errors_logged,  \* RCUTILS_LOG_ERROR_NAMED calls
    \* ---- ClientBase::ClientBase()
    node_base,      \* the node_base argument: "valid" or "null"
    construct_result, \* "none" (not called yet), "ok", "crashed", "InvalidNodeError"
    \* ---- what a test harness would note down about the running call
    shutdown_in_wait, \* rclcpp::shutdown() happened while the running call was
                    \* inside wait_for_graph_change
    first_wait_arg, \* <<d>>: the duration passed to the first
                    \* wait_for_graph_change of the call; <<>> before it
    \* ---- graph events, and a second thread waiting on the same client
    event,          \* identity of the graph event of the running call, 0: none
    other_pc,       \* "idle", "check", "wait", "clear"
    other_event,    \* identity of the second thread's graph event, 0: none
    other_signaled  \* state of the second thread's graph event

call_vars == <<pc, timeout, start, time_to_wait, event_signaled, result, trace>>
env_vars == <<now, ok, graph_alive, server_available, events_created>>
handle_vars == <<core_alive, holders, client_state, fini_calls, fini_ret, fini_node,
                 errors_logged>>
ctor_vars == <<node_base, construct_result>>
hist_vars == <<shutdown_in_wait, first_wait_arg>>
other_vars == <<other_pc, other_event, other_signaled>>
aux_vars == <<ctor_vars, hist_vars, event, other_vars>>
vars == <<call_vars, env_vars, handle_vars, aux_vars>>

Results == {"none", "true", "false", "InvalidNodeError", "RCLError"}

Last(s) == s[Len(s)]

\* number of entries of s that are in set S
RECURSIVE CountIn(_, _)
CountIn(s, S) ==
    IF s = <<>> THEN 0
    ELSE (IF Head(s) \in S THEN 1 ELSE 0) + CountIn(Tail(s), S)

QueryOps == {"query:ready", "query:notready", "query:error"}
WaitOps == {"wait:notified", "wait:elapsed"}
OkOps == {"ok:true", "ok:false"}

\* ------------------------------------------------------------------ Init
\* State after ClientBase::ClientBase(): the handle is allocated, zero
\* initialized and owned by client_handle_ alone; no call is running.
Init ==
    /\ pc = "idle"
    /\ timeout = 0
    /\ start = 0
    /\ time_to_wait = 0
    /\ event_signaled = FALSE
    /\ result = "none"
    /\ trace = <<>>
    /\ now = 0
    /\ ok = TRUE
    /\ graph_alive = TRUE
    /\ server_available \in BOOLEAN
    /\ events_created = 0
    /\ core_alive = TRUE
    /\ holders = 0
    /\ client_state = "allocated"
    /\ fini_calls = 0
    /\ fini_ret = "none"
    /\ fini_node = "none"
    /\ errors_logged = 0
    /\ node_base = "valid"
    /\ construct_result = "ok"
    /\ shutdown_in_wait = FALSE
    /\ first_wait_arg = <<>>
    /\ event = 0
    /\ other_pc = "idle"
    /\ other_event = 0
    /\ other_signaled = FALSE

\* ------------------------------------------------ wait_for_service_nanoseconds

EventIds == 1 .. 2

\* NodeGraphInterface::get_graph_event(): a new event, distinct from every
\* event in use
NewGraphEvent(in_use) == CHOOSE e \in EventIds : e \notin in_use

\* mutant: the event is made once and kept in the object, every call uses it
ObtainEvent_Member(in_use) == 1

\* Line 99: auto event = node_ptr->get_graph_event(), a local of the call
ObtainEvent(in_use) == NewGraphEvent(in_use)

\* mutant: the graph event is asked for before the lock result is looked at
Call_EventBeforeCheck ==
    /\ pc = "idle"
    /\ core_alive
    /\ \E t \in Timeouts : timeout' = t
    /\ start' = now
    /\ time_to_wait' = 0
    /\ trace' = <<"get_graph_event">>
    /\ event_signaled' = FALSE
    /\ events_created' = events_created + 1
    /\ IF ~graph_alive
       THEN result' = "InvalidNodeError" /\ pc' = "done"
       ELSE result' = "none" /\ pc' = "check"
    /\ UNCHANGED <<now, ok, graph_alive, server_available, handle_vars>>
    /\ event' = IF graph_alive THEN ObtainEvent({other_event}) ELSE event
    /\ UNCHANGED <<ctor_vars, hist_vars, other_vars>>

\* Lines 93-99: start = now(); lock node_graph_; throw InvalidNodeError if it
\* is gone; otherwise get the graph event.
Call ==
    /\ pc = "idle"
    /\ core_alive
    /\ \E t \in Timeouts : timeout' = t
    /\ start' = now
    /\ time_to_wait' = 0
    /\ IF ~graph_alive
       THEN /\ result' = "InvalidNodeError"
            /\ pc' = "done"
            /\ trace' = <<>>
            /\ UNCHANGED <<event_signaled, events_created>>
       ELSE /\ result' = "none"
            /\ pc' = "check"
            /\ trace' = <<"get_graph_event">>
            /\ event_signaled' = FALSE
            /\ events_created' = events_created + 1
    /\ UNCHANGED <<now, ok, graph_alive, server_available, handle_vars>>
    /\ event' = IF graph_alive THEN ObtainEvent({other_event}) ELSE event
    /\ UNCHANGED <<ctor_vars, hist_vars, other_vars>>


\* Lines 78-88, service_is_ready(): the answer of
\* rcl_service_server_is_available, or the exception thrown from its error.
service_is_ready(ret, is_ready) ==
    IF ret # "RCL_RET_OK" THEN "error"
    ELSE IF is_ready THEN "ready" ELSE "notready"

RclRets == {"RCL_RET_OK", "RCL_RET_ERROR"}

\* Lines 110 and 131: timeout - (steady_clock::now() - start)
RemainingTime(t, n, s) == t - (n - s)

\* mutant: the first time_to_wait is stored as computed
ClampTimeToWait_None(t, raw) == raw

\* Lines 111-115: a positive timeout never yields a negative first time_to_wait
ClampTimeToWait(t, raw) == IF t > 0 /\ raw < 0 THEN 0 ELSE raw

\* mutant: the loop goes on whatever the remaining time
LoopAgain_Always(ttw, t) == TRUE

\* mutant: the loop stops on an exhausted budget even for a negative timeout
LoopAgain_NoForever(ttw, t) == ttw > 0

\* mutant: the loop goes on while the budget is not negative
LoopAgain_Inclusive(ttw, t) == ttw >= 0 \/ t < 0

\* Line 132: the do-while condition
LoopAgain(ttw, t) == ttw > 0 \/ t < 0

\* mutant: the immediate check does not return on "ready"
ImmediateCheck_NoFastPath ==
    /\ pc = "check"
    /\ \E ret \in RclRets :
         LET r == service_is_ready(ret, server_available) IN
         /\ trace' = Append(trace, "query:" \o r)
         /\ IF r = "error"
            THEN pc' = "done" /\ result' = "RCLError"
            ELSE IF timeout = 0
            THEN pc' = "done" /\ result' = "false"
            ELSE pc' = "compute" /\ result' = result
    /\ UNCHANGED <<timeout, start, time_to_wait, event_signaled, env_vars, handle_vars>>
    /\ UNCHANGED aux_vars

\* mutant: a zero timeout is not treated apart and enters the loop
ImmediateCheck_NoZeroReturn ==
    /\ pc = "check"
    /\ \E ret \in RclRets :
         LET r == service_is_ready(ret, server_available) IN
         /\ trace' = Append(trace, "query:" \o r)
         /\ IF r = "error"
            THEN pc' = "done" /\ result' = "RCLError"
            ELSE IF r = "ready"
            THEN pc' = "done" /\ result' = "true"
            ELSE pc' = "compute" /\ result' = result
    /\ UNCHANGED <<timeout, start, time_to_wait, event_signaled, env_vars, handle_vars>>
    /\ UNCHANGED aux_vars

\* Lines 101-107: the immediate check, then the non-blocking case.
ImmediateCheck ==
    /\ pc = "check"
    /\ \E ret \in RclRets :
         LET r == service_is_ready(ret, server_available) IN
         /\ trace' = Append(trace, "query:" \o r)
         /\ IF r = "error"
            THEN pc' = "done" /\ result' = "RCLError"
            ELSE IF r = "ready"
            THEN pc' = "done" /\ result' = "true"
            ELSE IF timeout = 0
            THEN pc' = "done" /\ result' = "false"
            ELSE pc' = "compute" /\ result' = result
    /\ UNCHANGED <<timeout, start, time_to_wait, event_signaled, env_vars, handle_vars>>
    /\ UNCHANGED aux_vars

\* mutant: a budget already spent at line 110 ends the call without a wait
ComputeTimeToWait_ReturnIfSpent ==
    /\ pc = "compute"
    /\ time_to_wait' = ClampTimeToWait(timeout, RemainingTime(timeout, now, start))
    /\ IF LoopAgain(time_to_wait', timeout)
       THEN pc' = "top" /\ result' = result
       ELSE pc' = "done" /\ result' = "false"
    /\ UNCHANGED <<timeout, start, event_signaled, trace, env_vars, handle_vars>>
    /\ UNCHANGED aux_vars

\* Lines 110-115: first time_to_wait, clamped for a positive timeout.
ComputeTimeToWait ==
    /\ pc = "compute"
    /\ time_to_wait' = ClampTimeToWait(timeout, RemainingTime(timeout, now, start))
    /\ pc' = "top"
    /\ UNCHANGED <<timeout, start, event_signaled, result, trace, env_vars, handle_vars>>
    /\ UNCHANGED aux_vars

\* mutant: rclcpp::ok() is looked at but the loop body goes on regardless
CheckOk_NoReturn ==
    /\ pc = "top"
    /\ trace' = Append(trace, IF ok THEN "ok:true" ELSE "ok:false")
    /\ pc' = "wait"
    /\ UNCHANGED <<timeout, start, time_to_wait, event_signaled, result, env_vars,
                   handle_vars>>
    /\ UNCHANGED aux_vars

\* Lines 118-120: top of the do-while, rclcpp::ok().
CheckOk ==
    /\ pc = "top"
    /\ IF ~ok
       THEN /\ trace' = Append(trace, "ok:false")
            /\ pc' = "done"
            /\ result' = "false"
       ELSE /\ trace' = Append(trace, "ok:true")
            /\ pc' = "wait"
            /\ result' = result
    /\ UNCHANGED <<timeout, start, time_to_wait, event_signaled, env_vars, handle_vars>>
    /\ UNCHANGED aux_vars

\* NodeGraphInterface::wait_for_graph_change(event, duration) as the caller
\* sees it: it returns after d ticks, either because the event is signaled
\* (it was before the call, or a notification arrives during it) or because
\* a duration >= 0 has fully elapsed. A negative duration has no budget.
WaitReturns(signaled, duration, cause, d) ==
    \/ /\ cause = "notified"
       /\ d <= (IF duration < 0 THEN MaxBlock ELSE duration + MaxSlack)
    \/ /\ cause = "elapsed"
       /\ ~signaled
       /\ duration >= 0
       /\ d >= duration
       /\ d <= duration + MaxSlack

\* mutant: rclcpp::ok() is looked at again as soon as the wait returns
WaitForGraphChange_ThenCheckOk ==
    /\ pc = "wait"
    /\ CountIn(trace, WaitOps) < MaxIter
    /\ \E cause \in {"notified", "elapsed"}, d \in 0 .. (MaxTimeout + MaxSlack + MaxBlock) :
         /\ WaitReturns(event_signaled, time_to_wait, cause, d)
         /\ now' = now + d
         /\ event_signaled' = (cause = "notified")
         /\ trace' = IF ok THEN Append(trace, "wait:" \o cause)
                         ELSE trace \o <<"wait:" \o cause, "ok:false">>
    /\ IF ok THEN pc' = "clear" /\ result' = result
             ELSE pc' = "done" /\ result' = "false"
    /\ UNCHANGED <<timeout, start, time_to_wait, ok, graph_alive,
                   server_available, events_created, handle_vars>>
    /\ first_wait_arg' = IF first_wait_arg = <<>> THEN <<time_to_wait>>
                                                ELSE first_wait_arg
    /\ UNCHANGED <<ctor_vars, shutdown_in_wait, event, other_vars>>

\* Line 121: node_ptr->wait_for_graph_change(event, time_to_wait)
WaitForGraphChange ==
    /\ pc = "wait"
    /\ CountIn(trace, WaitOps) < MaxIter
    /\ \E cause \in {"notified", "elapsed"}, d \in 0 .. (MaxTimeout + MaxSlack + MaxBlock) :
         /\ WaitReturns(event_signaled, time_to_wait, cause, d)
         /\ now' = now + d
         /\ event_signaled' = (cause = "notified")
         /\ trace' = Append(trace, "wait:" \o cause)
    /\ pc' = "clear"
    /\ UNCHANGED <<timeout, start, time_to_wait, result, ok, graph_alive,
                   server_available, events_created, handle_vars>>
    /\ first_wait_arg' = IF first_wait_arg = <<>> THEN <<time_to_wait>>
                                                ELSE first_wait_arg
    /\ UNCHANGED <<ctor_vars, shutdown_in_wait, event, other_vars>>

\* mutant: a triggered event is taken as proof of readiness
CheckAndClear_TrustEvent ==
    /\ pc = "clear"
    /\ event_signaled' = FALSE
    /\ trace' = Append(trace, "clear")
    /\ IF event_signaled
       THEN pc' = "done" /\ result' = "true"
       ELSE pc' = "recheck" /\ result' = result
    /\ UNCHANGED <<timeout, start, time_to_wait, env_vars, handle_vars>>
    /\ other_signaled' = IF other_event = event THEN FALSE ELSE other_signaled
    /\ UNCHANGED <<ctor_vars, hist_vars, event, other_pc, other_event>>

\* mutant: the event is only reset when the wait was satisfied by it
CheckAndClear_OnlyIfSignaled ==
    /\ pc = "clear"
    /\ event_signaled' = FALSE
    /\ trace' = IF event_signaled THEN Append(trace, "clear") ELSE trace
    /\ pc' = "recheck"
    /\ UNCHANGED <<timeout, start, time_to_wait, result, env_vars, handle_vars>>
    /\ other_signaled' = IF other_event = event THEN FALSE ELSE other_signaled
    /\ UNCHANGED <<ctor_vars, hist_vars, event, other_pc, other_event>>

\* Line 122: event->check_and_clear()
CheckAndClear ==
    /\ pc = "clear"
    /\ event_signaled' = FALSE
    /\ trace' = Append(trace, "clear")
    /\ pc' = "recheck"
    /\ UNCHANGED <<timeout, start, time_to_wait, result, env_vars, handle_vars>>
    /\ other_signaled' = IF other_event = event THEN FALSE ELSE other_signaled
    /\ UNCHANGED <<ctor_vars, hist_vars, event, other_pc, other_event>>

\* mutant: a "ready" answer only counts when the graph event was triggered
Recheck_OnlyWhenNotified ==
    /\ pc = "recheck"
    /\ \E ret \in RclRets :
         LET r == service_is_ready(ret, server_available) IN
         /\ trace' = Append(trace, "query:" \o r)
         /\ IF r = "error"
            THEN pc' = "done" /\ result' = "RCLError"
            ELSE IF r = "ready" /\ trace[Len(trace) - 1] = "wait:notified"
            THEN pc' = "done" /\ result' = "true"
            ELSE pc' = "recompute" /\ result' = result
    /\ UNCHANGED <<timeout, start, time_to_wait, event_signaled, env_vars, handle_vars>>
    /\ UNCHANGED aux_vars

\* mutant: a failed query in the loop is retried on the next iteration
Recheck_RetryOnError ==
    /\ pc = "recheck"
    /\ \E ret \in RclRets :
         LET r == service_is_ready(ret, server_available) IN
         /\ trace' = Append(trace, "query:" \o r)
         /\ IF r = "ready"
            THEN pc' = "done" /\ result' = "true"
            ELSE pc' = "recompute" /\ result' = result
    /\ UNCHANGED <<timeout, start, time_to_wait, event_signaled, env_vars, handle_vars>>
    /\ UNCHANGED aux_vars

\* Lines 127-129: the re-check after every wait.
Recheck ==
    /\ pc = "recheck"
    /\ \E ret \in RclRets :
         LET r == service_is_ready(ret, server_available) IN
         /\ trace' = Append(trace, "query:" \o r)
         /\ IF r = "error"
            THEN pc' = "done" /\ result' = "RCLError"
            ELSE IF r = "ready"
            THEN pc' = "done" /\ result' = "true"
            ELSE pc' = "recompute" /\ result' = result
    /\ UNCHANGED <<timeout, start, time_to_wait, event_signaled, env_vars, handle_vars>>
    /\ UNCHANGED aux_vars

\* Lines 131-133: recompute time_to_wait, loop or return false.
Recompute ==
    /\ pc = "recompute"
    /\ time_to_wait' = RemainingTime(timeout, now, start)
    /\ IF LoopAgain(time_to_wait', timeout)
       THEN pc' = "top" /\ result' = result
       ELSE pc' = "done" /\ result' = "false"
    /\ UNCHANGED <<timeout, start, event_signaled, trace, env_vars, handle_vars>>
    /\ UNCHANGED aux_vars

\* The caller takes the result (or catches the exception); the locals and
\* the event of the call are gone. The code only ever uses differences of
\* steady_clock readings taken within one call, so the clock is re-based
\* between calls to keep its values small.
Return ==
    /\ pc = "done"
    /\ pc' = "idle"
    /\ timeout' = 0
    /\ start' = 0
    /\ time_to_wait' = 0
    /\ event_signaled' = FALSE
    /\ result' = "none"
    /\ trace' = <<>>
    /\ events_created' = 0
    /\ now' = 0
    /\ UNCHANGED <<ok, graph_alive, server_available, handle_vars>>
    /\ event' = 0
    /\ first_wait_arg' = <<>>
    /\ shutdown_in_wait' = FALSE
    /\ UNCHANGED <<ctor_vars, other_vars>>

\* ------------------------------------------------------------ environment

InCall == pc \notin {"idle", "done"}

\* the steady clock advances
Tick ==
    /\ now < MaxClock
    /\ now' = now + 1
    /\ UNCHANGED <<call_vars, ok, graph_alive, server_available, events_created,
                   handle_vars>>
    /\ UNCHANGED aux_vars

\* rclcpp::shutdown(): rclcpp::ok() is false from now on
Shutdown ==
    /\ ok
    /\ ok' = FALSE
    /\ UNCHANGED <<call_vars, now, graph_alive, server_available, events_created,
                   handle_vars>>
    /\ shutdown_in_wait' = (pc = "wait")
    /\ UNCHANGED <<ctor_vars, first_wait_arg, event, other_vars>>

\* a server for the service appears or disappears; the graph may or may not
\* notify the event of a running call
ServerChange ==
    /\ server_available' = ~server_available
    /\ \E notify \in BOOLEAN :
         /\ event_signaled' = IF notify /\ InCall THEN TRUE ELSE event_signaled
         /\ other_signaled' = IF notify /\ other_pc # "idle" THEN TRUE
                                                          ELSE other_signaled
    /\ UNCHANGED <<pc, timeout, start, time_to_wait, result, trace, now, ok,
                   graph_alive, events_created, handle_vars>>
    /\ UNCHANGED <<ctor_vars, hist_vars, event, other_pc, other_event>>

\* a graph change that does not concern this service signals the events of
\* the running calls
SpuriousNotify ==
    /\ \/ InCall /\ ~event_signaled
       \/ other_pc # "idle" /\ ~other_signaled
    /\ event_signaled' = IF InCall THEN TRUE ELSE event_signaled
    /\ other_signaled' = IF other_pc # "idle" THEN TRUE ELSE other_signaled
    /\ UNCHANGED <<pc, timeout, start, time_to_wait, result, trace, env_vars,
                   handle_vars>>
    /\ UNCHANGED <<ctor_vars, hist_vars, event, other_pc, other_event>>

\* the node (owner of the graph interface) is destroyed; a running call
\* holds node_ptr and keeps it alive
NodeDestroyed ==
    /\ graph_alive
    /\ ~InCall
    /\ other_pc = "idle"
    /\ graph_alive' = FALSE
    /\ UNCHANGED <<call_vars, now, ok, server_available, events_created, handle_vars>>
    /\ UNCHANGED aux_vars


\* ------------------------------------------------- client_handle_ lifetime

\* Lines 45-54, the deleter given to client_handle_: rcl_client_fini(client,
\* node_handle_.get()); on failure log, reset the error and delete client.
\* node is what node_handle_ (a member read through the captured this)
\* yields at that moment.
ClientDeleter(node) ==
    \E ret \in RclRets :
        /\ fini_calls' = fini_calls + 1
        /\ fini_ret' = ret
        /\ fini_node' = node
        /\ IF ret # "RCL_RET_OK"
           THEN /\ errors_logged' = errors_logged + 1
                /\ client_state' = "freed"
           ELSE /\ errors_logged' = errors_logged
                /\ client_state' = client_state

\* Lines 66-76, get_client_handle(): one more owner of the handle.
GetClientHandle ==
    /\ core_alive
    /\ holders < MaxHolders
    /\ holders' = holders + 1
    /\ UNCHANGED <<core_alive, client_state, fini_calls, fini_ret, fini_node,
                   errors_logged, call_vars, env_vars>>
    /\ UNCHANGED aux_vars

\* An outside owner drops its copy. If the ClientBase object is gone this
\* is the last reference and the deleter runs, reading node_handle_ through
\* a this pointer that no longer points to an object.
DropHandle ==
    /\ holders > 0
    /\ holders' = holders - 1
    /\ IF ~core_alive /\ holders = 1
       THEN \E node \in {"valid", "dangling"} : ClientDeleter(node)
       ELSE UNCHANGED <<client_state, fini_calls, fini_ret, fini_node, errors_logged>>
    /\ UNCHANGED <<core_alive, call_vars, env_vars>>
    /\ UNCHANGED aux_vars

\* mutant: the destructor finalizes the client itself, whoever else holds it
DestroyClientBase_FiniInDestructor ==
    /\ core_alive
    /\ pc = "idle"
    /\ other_pc = "idle"
    /\ core_alive' = FALSE
    /\ ClientDeleter(IF node_base = "valid" THEN "valid" ELSE "dangling")
    /\ UNCHANGED <<holders, call_vars, env_vars>>
    /\ UNCHANGED aux_vars

\* Line 58, ~ClientBase(): the members are destroyed; client_handle_ drops
\* its reference while node_handle_ still holds the node.
DestroyClientBase ==
    /\ core_alive
    /\ pc = "idle"
    /\ other_pc = "idle"
    /\ core_alive' = FALSE
    /\ IF holders = 0
       THEN ClientDeleter(IF node_base = "valid" THEN "valid" ELSE "dangling")
       ELSE UNCHANGED <<client_state, fini_calls, fini_ret, fini_node, errors_logged>>
    /\ UNCHANGED <<holders, call_vars, env_vars>>
    /\ UNCHANGED aux_vars

\* ------------------------------------------------------------------- Spec
Next ==
    \/ Call
    \/ ImmediateCheck
    \/ ComputeTimeToWait
    \/ CheckOk
    \/ WaitForGraphChange
    \/ CheckAndClear
    \/ Recheck
    \/ Recompute
    \/ Return
    \/ Tick
    \/ Shutdown
    \/ ServerChange
    \/ SpuriousNotify
    \/ NodeDestroyed
    \/ GetClientHandle
    \/ DropHandle
    \/ DestroyClientBase

Spec == Init /\ [][Next]_vars

\* ---------------------------------------------- the call under fairness
\* Line 121 once the call has made MaxIter waits. The steady clock keeps
\* advancing, so only so many iterations fit into one tick: from here on a
\* wait of a timed call takes at least one tick. Such a call is never
\* more than MaxTimeout past a start that is at most MaxClock.
WaitBeyondCap ==
    /\ pc = "wait"
    /\ CountIn(trace, WaitOps) >= MaxIter
    /\ timeout > 0
    /\ now < MaxClock + MaxTimeout
    /\ \E cause \in {"notified", "elapsed"}, d \in 1 .. (MaxTimeout + MaxSlack + MaxBlock) :
         /\ WaitReturns(event_signaled, time_to_wait, cause, d)
         /\ now' = now + d
         /\ event_signaled' = (cause = "notified")
         /\ trace' = Append(trace, "wait:" \o cause)
    /\ pc' = "clear"
    /\ UNCHANGED <<timeout, start, time_to_wait, result, ok, graph_alive,
                   server_available, events_created, handle_vars>>
    /\ UNCHANGED aux_vars

\* Lines 101-132 but for line 121: the calling thread is running and takes
\* its next step.
ThreadStep ==
    \/ ImmediateCheck
    \/ ComputeTimeToWait
    \/ CheckOk
    \/ CheckAndClear
    \/ Recheck
    \/ Recompute

\* Line 121 with a duration that is not negative: the wait returns, at the
\* latest when the duration has elapsed.
BoundedWait ==
    /\ timeout > 0
    /\ (WaitForGraphChange \/ WaitBeyondCap)

\* Line 121 on an event that is signaled: the wait returns.
SignaledWait ==
    /\ event_signaled
    /\ WaitForGraphChange

NextLive ==
    \/ Call
    \/ ImmediateCheck
    \/ ComputeTimeToWait
    \/ CheckOk
    \/ WaitForGraphChange
    \/ WaitBeyondCap
    \/ CheckAndClear
    \/ Recheck
    \/ Recompute
    \/ Return
    \/ Tick
    \/ Shutdown
    \/ ServerChange
    \/ SpuriousNotify
    \/ NodeDestroyed

SpecLive ==
    /\ Init
    /\ [][NextLive]_vars
    /\ WF_vars(ThreadStep)
    /\ WF_vars(BoundedWait)
    /\ WF_vars(SignaledWait)

\* ------------------- a second thread in wait_for_service_nanoseconds
\* The same function run by another thread on the same ClientBase, reduced
\* to what it does with its graph event; its readiness queries, its timeout
\* and its result are left open.

\* Lines 93-99: the second call locks the graph and gets its event.
OtherCall ==
    /\ other_pc = "idle"
    /\ core_alive
    /\ graph_alive
    /\ other_event' = ObtainEvent({event})
    /\ other_signaled' = FALSE
    /\ other_pc' = "check"
    /\ UNCHANGED <<call_vars, env_vars, handle_vars, ctor_vars, hist_vars, event>>

\* Lines 101-120 and 127-132: not ready, time left, no shutdown: on to the wait.
OtherProceed ==
    /\ other_pc = "check"
    /\ other_pc' = "wait"
    /\ UNCHANGED <<other_event, other_signaled>>
    /\ UNCHANGED <<call_vars, env_vars, handle_vars, ctor_vars, hist_vars, event>>

\* Lines 102, 106, 119, 128, 133 or an exception: the second call ends.
OtherReturn ==
    /\ other_pc = "check"
    /\ other_pc' = "idle"
    /\ other_event' = 0
    /\ other_signaled' = FALSE
    /\ UNCHANGED <<call_vars, env_vars, handle_vars, ctor_vars, hist_vars, event>>

\* Line 121: the second call's wait returns, notified or not.
OtherWait ==
    /\ other_pc = "wait"
    /\ other_pc' = "clear"
    /\ \E notified \in BOOLEAN : other_signaled' = (other_signaled \/ notified)
    /\ UNCHANGED other_event
    /\ UNCHANGED <<call_vars, env_vars, handle_vars, ctor_vars, hist_vars, event>>

\* Line 122: the second call resets its event.
OtherClear ==
    /\ other_pc = "clear"
    /\ other_pc' = "check"
    /\ other_signaled' = FALSE
    /\ event_signaled' = IF event = other_event THEN FALSE ELSE event_signaled
    /\ UNCHANGED other_event
    /\ UNCHANGED <<pc, timeout, start, time_to_wait, result, trace, env_vars,
                   handle_vars, ctor_vars, hist_vars, event>>

\* Two threads on one ClientBase. The clock moves inside the waits only:
\* the delay between two steps of a thread plays no part in which event a
\* thread holds.
NextConcurrent ==
    \/ Call
    \/ ImmediateCheck
    \/ ComputeTimeToWait
    \/ CheckOk
    \/ WaitForGraphChange
    \/ CheckAndClear
    \/ Recheck
    \/ Recompute
    \/ Return
    \/ Shutdown
    \/ ServerChange
    \/ SpuriousNotify
    \/ NodeDestroyed
    \/ OtherCall
    \/ OtherProceed
    \/ OtherReturn
    \/ OtherWait
    \/ OtherClear

SpecConcurrent == Init /\ [][NextConcurrent]_vars

\* ------------------------------------------------ ClientBase::ClientBase()

\* State before the constructor runs, with the node_base argument chosen.
InitConstruct ==
    /\ pc = "idle"
    /\ timeout = 0
    /\ start = 0
    /\ time_to_wait = 0
    /\ event_signaled = FALSE
    /\ result = "none"
    /\ trace = <<>>
    /\ now = 0
    /\ ok = TRUE
    /\ graph_alive = TRUE
    /\ server_available \in BOOLEAN
    /\ events_created = 0
    /\ core_alive = FALSE
    /\ holders = 0
    /\ client_state = "none"
    /\ fini_calls = 0
    /\ fini_ret = "none"
    /\ fini_node = "none"
    /\ errors_logged = 0
    /\ node_base \in {"valid", "null"}
    /\ construct_result = "none"
    /\ shutdown_in_wait = FALSE
    /\ first_wait_arg = <<>>
    /\ event = 0
    /\ other_pc = "idle"
    /\ other_event = 0
    /\ other_signaled = FALSE

\* Lines 36-56: the initializer list calls node_base->get_shared_rcl_node_handle()
\* without looking at node_base; the body allocates the rcl_client_t and
\* wraps it with the deleter. Nothing in the constructor throws
\* InvalidNodeError. With a null node_base line 41 is a member call through
\* a null pointer: the process crashes there, or the call goes through and
\* the object exists with a node handle that is not one.
Construct ==
    /\ construct_result = "none"
    /\ \E outcome \in (IF node_base = "null" THEN {"crashed", "ok"} ELSE {"ok"}) :
         /\ construct_result' = outcome
         /\ core_alive' = (outcome = "ok")
         /\ client_state' = IF outcome = "ok" THEN "allocated" ELSE client_state
    /\ UNCHANGED <<holders, fini_calls, fini_ret, fini_node, errors_logged, node_base,
                   call_vars, env_vars, hist_vars, event, other_vars>>

NextConstruct ==
    \/ Construct
    \/ Next

SpecConstruct == InitConstruct /\ [][NextConstruct]_vars

TypeOK ==
    /\ pc \in {"idle", "check", "compute", "top", "wait", "clear", "recheck",
               "recompute", "done"}
    /\ timeout \in Timeouts
    /\ result \in Results
    /\ event_signaled \in BOOLEAN
    /\ client_state \in {"none", "allocated", "freed"}
    /\ construct_result \in {"none", "ok", "crashed"}
    /\ holders \in 0 .. MaxHolders


\* ---------------------------------------------------------------- claims

Ops(s) == {s[i] : i \in 1 .. Len(s)}
Waits == CountIn(trace, WaitOps)
Queries == CountIn(trace, QueryOps)

\* C1: with the graph interface alive, a first readiness query that answers
\* "ready" ends the call with true, for every timeout and whatever
\* rclcpp::ok() says, and wait_for_graph_change is never called.
C1_ReadyFastPath ==
    (Len(trace) >= 2 /\ trace[2] = "query:ready")
        => /\ pc = "done"
           /\ result = "true"
           /\ Waits = 0

\* a negative timeout, shutdown already requested, server ready at once
C1_Witness ==
    /\ pc = "done"
    /\ result = "true"
    /\ trace = <<"get_graph_event", "query:ready">>
    /\ timeout < 0
    /\ ~ok

\* C2: with timeout 0 and a first query answering "not ready" the call
\* returns false after that single query: no wait, no clear of the event,
\* no look at rclcpp::ok().
C2_ZeroTimeoutProbe ==
    (timeout = 0 /\ Len(trace) >= 2 /\ trace[2] = "query:notready")
        => /\ pc = "done"
           /\ result = "false"
           /\ trace = <<"get_graph_event", "query:notready">>

\* the probe returned false although shutdown was already requested
C2_Witness ==
    /\ pc = "done"
    /\ timeout = 0
    /\ result = "false"
    /\ Len(trace) = 2
    /\ ~ok

\* C3: with a negative timeout, false is returned only by the rclcpp::ok()
\* check at the top of an iteration having found shutdown; never because
\* time went by.
C3_NegativeTimeoutFalseOnlyOnShutdown ==
    (timeout < 0 /\ pc = "done" /\ result = "false")
        => /\ Last(trace) = "ok:false"
           /\ ~ok

\* false after several wait episodes and more elapsed time than |timeout|
C3_Witness ==
    /\ timeout < 0
    /\ pc = "done"
    /\ result = "false"
    /\ Waits >= 2
    /\ now - start >= 2

\* C4: a true result is always produced by a readiness query that answered
\* "ready" and that is the last thing the call did (so it comes after the
\* last wait and the last clear); a signaled event alone never yields true.
C4_TrueOnlyAfterReadyQuery ==
    (result = "true")
        => /\ pc = "done"
           /\ Last(trace) = "query:ready"
           /\ (Waits > 0 =>
                 /\ trace[Len(trace) - 1] = "clear"
                 /\ trace[Len(trace) - 2] \in WaitOps)

\* true after a wait that the event ended
C4_Witness ==
    /\ result = "true"
    /\ Waits >= 1
    /\ trace[Len(trace) - 2] = "wait:notified"

\* C5: every return of wait_for_graph_change (notified or elapsed) is followed
\* by exactly one check_and_clear and then exactly one readiness query; when
\* that query answers "not ready" the call does not return true, and it
\* returns false at that point only if the timeout is not negative and no
\* time is left: otherwise it starts another iteration.
C5_WaitThenClearThenQuery ==
    /\ \A i \in 1 .. Len(trace) :
         trace[i] \in WaitOps =>
            /\ (i = Len(trace) => pc = "clear")
            /\ (i < Len(trace) => trace[i + 1] = "clear")
            /\ (i + 1 = Len(trace) => pc = "recheck")
            /\ (i + 1 < Len(trace) => trace[i + 2] \in QueryOps)
            /\ (i + 2 < Len(trace) => trace[i + 3] \in OkOps)
    /\ (Len(trace) >= 3 /\ Last(trace) = "query:notready"
            /\ trace[Len(trace) - 1] = "clear")
         => /\ result # "true"
            /\ pc \in {"recompute", "top", "done"}
            /\ (pc = "done" =>
                  result = "false" /\ timeout >= 0 /\ time_to_wait <= 0)
            /\ (pc = "top" => time_to_wait > 0 \/ timeout < 0)

\* a spurious wake-up with a positive timeout, re-checked, then a new iteration
C5_Witness ==
    /\ timeout > 0
    /\ \E i \in 1 .. Len(trace) :
         /\ trace[i] = "wait:notified"
         /\ Len(trace) >= i + 3
         /\ trace[i + 2] = "query:notready"
         /\ trace[i + 3] = "ok:true"

\* C6: a re-check (a query after a wait) that answers "ready" ends the call
\* with true at once, whether the wait was notified or elapsed and whether
\* or not any budget is left; a call that returns true after one wait has
\* made exactly two readiness queries.
C6_RecheckReadyReturnsTrue ==
    /\ \A i \in 3 .. Len(trace) :
         trace[i] = "query:ready" =>
            i = Len(trace) /\ pc = "done" /\ result = "true"
    /\ (result = "true" /\ Waits = 1) => (Queries = 2 /\ Len(trace) = 6)

\* true after a wait that ran out, with the whole budget used up
C6_Witness ==
    /\ result = "true"
    /\ timeout > 0
    /\ Len(trace) = 6
    /\ trace[4] = "wait:elapsed"
    /\ RemainingTime(timeout, now, start) <= 0

\* C7: a readiness query that fails ends the call with that error; nothing
\* is done after it.
C7_QueryErrorPropagates ==
    \A i \in 1 .. Len(trace) :
        trace[i] = "query:error" =>
            i = Len(trace) /\ pc = "done" /\ result = "RCLError"

\* the re-check of the second iteration failed
C7_Witness ==
    /\ result = "RCLError"
    /\ Waits = 2
    /\ Last(trace) = "query:error"

\* C8: positive timeout, every query "not ready", rclcpp::ok() true, every
\* wait lasting its full duration without notification (the graph interface
\* being alive): the call returns false after the immediate check, one wait
\* episode and one re-check.
C8_FullWaitTimesOutAfterOneEpisode ==
    (timeout > 0 /\ trace # <<>>
        /\ Ops(trace) \cap {"wait:notified", "ok:false", "query:ready",
                            "query:error"} = {})
        => /\ Waits <= 1
           /\ (pc = "done" =>
                 /\ result = "false"
                 /\ trace = <<"get_graph_event", "query:notready", "ok:true",
                              "wait:elapsed", "clear", "query:notready">>)

C8_Witness ==
    /\ timeout = MaxTimeout
    /\ pc = "done"
    /\ result = "false"
    /\ trace = <<"get_graph_event", "query:notready", "ok:true",
                 "wait:elapsed", "clear", "query:notready">>

\* C9: a call made when node_graph_ can no longer be locked throws
\* InvalidNodeError, for every timeout and whether or not a server is
\* available, without having asked for a graph event, queried or waited.
C9_StaleContextFailsFirst ==
    [][(pc = "idle" /\ pc' # "idle" /\ ~graph_alive)
          => /\ pc' = "done"
             /\ result' = "InvalidNodeError"
             /\ trace' = <<>>
             /\ events_created' = 0]_vars

\* zero timeout, server available, node gone
C9_Witness ==
    /\ pc = "done"
    /\ result = "InvalidNodeError"
    /\ timeout = 0
    /\ server_available
    /\ ~graph_alive
    /\ trace = <<>>

\* C10: once the last owner has dropped the handle, the rcl_client_t is
\* deallocated, whatever rcl_client_fini returned.
C10_ResourceFreedAfterLastRelease ==
    (~core_alive /\ holders = 0) => client_state = "freed"


\* C11: whatever the order in which the ClientBase object and the outside
\* owners release the handle, rcl_client_fini is given a node handle that is
\* still valid.
C11_FiniNodeHandleValid ==
    fini_calls > 0 => fini_node = "valid"

\* C12: rcl_client_fini is called exactly once, on the release of the last
\* owner of the handle, and never while the ClientBase object or an outside
\* owner still holds it.
C12_FiniOnceAtLastRelease ==
    /\ fini_calls <= 1
    /\ (fini_calls = 1) <=> (~core_alive /\ holders = 0)
    /\ (fini_calls = 0) <=> (fini_ret = "none")

\* the last owner was an outside one: the object had been destroyed before
C12_Witness ==
    /\ fini_calls = 1
    /\ ~core_alive
    /\ holders = 0
    /\ fini_node = "dangling"


\* C13: constructing with a null node_base fails with InvalidNodeError and
\* no ClientBase object comes to exist.
C13_NullBaseInvalidNodeError ==
    (node_base = "null" /\ construct_result # "none")
        => (construct_result = "InvalidNodeError" /\ ~core_alive)


\* C14: every wait_for_graph_change is directly preceded by an rclcpp::ok()
\* check that found no shutdown; a check that finds shutdown ends the call
\* with false at once: no wait, no clear, no query follows it, whatever the
\* sign of the timeout.
C14_ShutdownCheckedBeforeWait ==
    /\ \A i \in 1 .. Len(trace) :
         /\ trace[i] \in WaitOps => (i > 1 /\ trace[i - 1] = "ok:true")
         /\ trace[i] = "ok:false" =>
               (i = Len(trace) /\ pc = "done" /\ result = "false")
    /\ (pc = "wait" => Last(trace) = "ok:true")

\* shutdown found at the top of a later iteration of a bounded wait
C14_Witness ==
    /\ pc = "done"
    /\ result = "false"
    /\ timeout > 0
    /\ Waits >= 1
    /\ Last(trace) = "ok:false"


\* C15 as stated: after every return of wait_for_graph_change, rclcpp::ok()
\* is looked at before the next readiness query and before the call returns,
\* so a shutdown raised during a wait is seen before that episode yields a
\* result.
C15_OkRecheckedRightAfterWait ==
    /\ \A i \in 1 .. Len(trace) :
         trace[i] \in WaitOps =>
            \A j \in (i + 1) .. Len(trace) :
               trace[j] \in QueryOps =>
                  \E k \in (i + 1) .. (j - 1) : trace[k] \in OkOps
    /\ (shutdown_in_wait /\ pc = "done")
          => (result = "false" /\ Last(trace) = "ok:false")

\* C15 amended: after a wait returns the call clears the event and queries
\* readiness first; rclcpp::ok() is looked at next only at the top of the
\* following iteration. Once shutdown is raised no further wait is entered,
\* but the episode during which it was raised can still yield true or an
\* error from its re-check, or false from the used-up budget, without
\* rclcpp::ok() having been looked at.
C15_OkRecheckedAtNextIteration ==
    /\ [][(~ok /\ pc # "wait") => pc' # "wait"]_vars
    /\ [](\A i \in 1 .. Len(trace) :
            trace[i] \in WaitOps =>
               /\ (i + 1 <= Len(trace) => trace[i + 1] \notin OkOps)
               /\ (i + 2 <= Len(trace) => trace[i + 2] \notin OkOps)
               /\ (i + 3 <= Len(trace) => trace[i + 3] \in OkOps))
    /\ []((shutdown_in_wait /\ pc = "done")
            => \/ result = "false" /\ Last(trace) = "ok:false"
               \/ result \in {"true", "RCLError"} /\ Last(trace) \in QueryOps
               \/ result = "false" /\ timeout > 0 /\ time_to_wait <= 0
                    /\ Last(trace) = "query:notready")

\* shutdown was raised during the wait; the re-check found the server and
\* the call returned true without having seen the shutdown
C15_Witness ==
    /\ shutdown_in_wait
    /\ pc = "done"
    /\ result = "true"
    /\ "ok:false" \notin Ops(trace)


\* C16: a call gets exactly one graph event, before its first readiness
\* query, and keeps that one until it returns; two calls running at the
\* same time hold different events, and check_and_clear by one of them
\* leaves the other's event as it was.
C16_OneEventPerCall ==
    /\ [](trace # <<>> =>
            /\ trace[1] = "get_graph_event"
            /\ CountIn(trace, {"get_graph_event"}) = 1
            /\ events_created = 1
            /\ event # 0)
    /\ [][(pc # "idle" /\ pc' # "idle") => event' = event]_vars
    /\ []((InCall /\ other_pc # "idle") => event # other_event)
    /\ [][(other_pc = "clear" /\ other_pc' # "clear")
            => event_signaled' = event_signaled]_vars
    /\ [][(pc = "clear" /\ pc' # "clear")
            => other_signaled' = other_signaled]_vars

\* the second thread has reset its event; the event this call waits on is
\* still signaled
C16_Witness ==
    /\ pc = "wait"
    /\ event_signaled
    /\ other_pc = "check"
    /\ ~other_signaled
    /\ event # other_event
    /\ Waits >= 1


\* C17 as stated: with a timeout that is not negative, the stored
\* time_to_wait is never negative at any point of the call.
C17_TimeToWaitNeverNegative ==
    (pc # "idle" /\ timeout >= 0) => time_to_wait >= 0

\* C17 amended: with a timeout that is not negative, time_to_wait is not
\* negative wherever the loop body can read it, so no wait is given a
\* negative duration; the recompute at the end of an iteration stores the
\* difference as it is, and a negative one is only ever seen by the loop
\* condition, which leaves the loop with false.
C17_WaitDurationNeverNegative ==
    /\ (timeout >= 0 /\ pc \in {"top", "wait", "clear", "recheck", "recompute"})
          => time_to_wait >= 0
    /\ (timeout >= 0 /\ time_to_wait < 0)
          => /\ pc = "done"
             /\ result = "false"
             /\ Last(trace) = "query:notready"
             /\ RemainingTime(timeout, now, start) <= time_to_wait
    /\ (timeout > 0 /\ first_wait_arg # <<>>) => first_wait_arg[1] >= 0

\* the budget was already overrun at line 110 and the wait is given zero
C17_Witness ==
    /\ pc = "wait"
    /\ timeout > 0
    /\ Waits = 0
    /\ RemainingTime(timeout, now, start) < 0
    /\ time_to_wait = 0


\* C18: a call with a positive timeout that returns false without having
\* seen rclcpp::ok() false has made at least one wait followed by a
\* readiness query, and at its last recompute the time since start was at
\* least the timeout; a budget already spent at line 110 still gives one
\* wait, of duration zero.
C18_NeverUnderWaits ==
    /\ []((pc = "done" /\ timeout > 0 /\ result = "false"
             /\ Last(trace) # "ok:false")
            => /\ Waits >= 1
               /\ Len(trace) >= 3
               /\ trace[Len(trace) - 2] \in WaitOps
               /\ trace[Len(trace) - 1] = "clear"
               /\ trace[Len(trace)] = "query:notready"
               /\ time_to_wait <= 0
               /\ now - start >= timeout)
    /\ [][(pc = "compute" /\ pc' # "compute" /\ timeout > 0
             /\ RemainingTime(timeout, now, start) <= 0)
            => (pc' = "top" /\ time_to_wait' = 0)]_vars
    /\ []((timeout > 0 /\ first_wait_arg # <<>>) => first_wait_arg[1] >= 0)

\* false after exactly one wait, which was given zero
C18_Witness ==
    /\ pc = "done"
    /\ timeout > 0
    /\ result = "false"
    /\ Last(trace) # "ok:false"
    /\ first_wait_arg = <<0>>
    /\ Waits = 1


\* C19: a call with a positive timeout returns, whatever the notifications
\* and the readiness do, when the thread keeps running and every wait with
\* a duration returns; the loop is left with false by the first recompute
\* that finds timeout - (now - start) <= 0.
C19_PositiveTimeoutReturns ==
    /\ (InCall /\ timeout > 0) ~> (pc = "done")
    /\ [][(pc = "recompute" /\ pc' # "recompute" /\ timeout > 0
             /\ RemainingTime(timeout, now, start) <= 0)
            => (pc' = "done" /\ result' = "false")]_vars

\* a timed call has come back with false after more than MaxIter waits,
\* one of them ended by a notification
C19_Witness ==
    /\ pc = "done"
    /\ timeout > 0
    /\ result = "false"
    /\ Waits > MaxIter
    /\ CountIn(trace, {"wait:notified"}) >= 1
    /\ Last(trace) = "query:notready"


====
